---- MODULE Spec2Model ----
(***************************************************************************)
(* A model of the arcade game of js/app.js: the Enemy and Player entities, *)
(* the key and button listeners, and the engine's game loop (main, update, *)
(* checkCollisions, checkGameStatus, startGame, stopGame, resetGame).      *)
(*                                                                         *)
(* Every handler is an operator from a state record to a state record, so  *)
(* that a handler can be composed with another (resetGame is stopGame then *)
(* startGame) and compared with itself.  The actions apply one handler to  *)
(* the current state.  A handler runs to completion: the page has a single *)
(* thread and no handler yields.                                           *)
(*                                                                         *)
(* Units: positions are pixels, the clock is in milliseconds.  The clock   *)
(* advances in whole seconds, so speed * dt is a whole number of pixels.   *)
(* Date.now() is an input of the handler that reads it: the field elapsed  *)
(* of the state a handler starts from is Date.now() - lastTime at that     *)
(* moment, any of the values of Elapsed, and lastTime = now sets it to 0.  *)
(*                                                                         *)
(* player.x and player.y are assigned by Player.prototype.update at the    *)
(* start of every tick and read only later in that tick (by collided and   *)
(* by render).  The handlers compute them inside the tick, as the value    *)
(* at that is handed from update to the collision test and to render.      *)
(***************************************************************************)
EXTENDS Integers, Sequences, FiniteSets, TLC

\* ------------------------------------------------------------------ values
\* JavaScript's undefined (a field declared and never assigned) and NaN.
Undefined == -1000
NaN == -2000
\* The score area of the canvas holding no text.
Blank == -3000

IsNum(v) == v # Undefined /\ v # NaN

\* requestId is tested with if (requestId): 0 and undefined are falsy.
Truthy(v) == v # 0 /\ v # Undefined

\* ------------------------------------------------------------------ bounds
\* Seconds in one step of the clock.
ClockStep == 3
\* The most steps of the clock between lastTime and a reading of Date.now().
MaxElapsed == 1

\* ------------------------------------------------------------------ constants
PLAYER_WIDTH_OFFSET == 23
VISIBLE_ROW_HEIGHT == 83
ROW_HEIGHT_OFFSET == 25
gsCollisionLimit == 3
gsEnemySpeedAdjustor == 0
gsEnemyCount == 3
gsBoardColumns == 5
\* Resources.get(sprite).width: every image of the game is 101 pixels wide
\* (the five columns fill the canvas, whose width is 505).
SpriteWidth == 101

\* The values Math.floor(Math.random() * (maxSpeed - minSpeed)) can take are
\* 0..299; the model draws the two ends, a behaviour drawing the same end at
\* every spawn (the lower end in Spec, either end in SpeedSpec).
\* Math.floor(Math.random() * 3) is 0, 1 or 2.
SpeedDraws == {0, 299}
RowDraws == 0 .. 2
NoDraw == [speed |-> 0, row |-> 0]

Keys == {"left", "up", "right", "down", "other"}

\* The values of Date.now() - lastTime, in milliseconds, when a frame request
\* runs.
Elapsed == {k * ClockStep * 1000 : k \in 0 .. MaxElapsed}
\* A click comes long after lastTime was set (which startGame never reads).
ClickElapsed == MaxElapsed * ClockStep * 1000

VARIABLES
    loaded,       \* Resources.onReady has fired
    player,       \* [col, row, collisionCount]
    allEnemies,   \* sequence of [x, y, speed]
    requestId,    \* 0, Undefined or the handle of the last frame request
    pending,      \* handles of the frame requests not yet run or cancelled
    buttons,      \* [start, reset, stop]: each button's disabled property
    score,        \* lives shown in the score area of the canvas, or Blank
    banner,       \* "none", "won" or "lost": the status message on the canvas
    speedDraw     \* the value every draw of a speed takes in this behaviour

vars == <<loaded, player, allEnemies, requestId, pending, buttons,
          score, banner, speedDraw>>

\* The state a handler starts from, the clock reading ms after lastTime.
At(ms) ==
    [loaded |-> loaded, player |-> player, allEnemies |-> allEnemies,
     requestId |-> requestId, pending |-> pending, elapsed |-> ms,
     buttons |-> buttons, score |-> score, banner |-> banner]

\* The same for a handler that does not read the clock.
Cur == At(0)

Apply(s) ==
    \E t \in {s} :
        /\ loaded' = t.loaded
        /\ player' = t.player
        /\ allEnemies' = t.allEnemies
        /\ requestId' = t.requestId
        /\ pending' = t.pending
        /\ buttons' = t.buttons
        /\ score' = t.score
        /\ banner' = t.banner

\* ------------------------------------------------------------------ Enemy
setSpeed(r) ==
    LET maxSpeed == 400
        minSpeed == 100
    IN  r + minSpeed + gsEnemySpeedAdjustor

\* setRow without its minimum row: rows 0..2, the water row among them.
setRow_noMinRow(r) == (r * VISIBLE_ROW_HEIGHT) - ROW_HEIGHT_OFFSET

setRow(r) ==
    LET minRow == 1
    IN  ((r + minRow) * VISIBLE_ROW_HEIGHT) - ROW_HEIGHT_OFFSET

spawn(d) == [speed |-> setSpeed(d.speed), y |-> setRow(d.row), x |-> 0]

\* The enemy leaves the track when x + speed * dt is beyond the board.
Leaves(e, ms) == e.x + (e.speed * ms) \div 1000 > SpriteWidth * gsBoardColumns

\* Enemy.prototype.update without the respawn at the end of the track.
EnemyUpdate_noRespawn(e, ms, d) ==
    [e EXCEPT !.x = e.x + (e.speed * ms) \div 1000]

EnemyUpdate(e, ms, d) ==
    IF Leaves(e, ms) THEN spawn(d)
    ELSE [e EXCEPT !.x = e.x + (e.speed * ms) \div 1000]

\* ------------------------------------------------------------------ Player
goToHome(p) == [p EXCEPT !.col = 2, !.row = 5]

\* crash sending the player to the middle of the water row instead of home.
crash_toWater(p) ==
    [p EXCEPT !.col = 2, !.row = 0, !.collisionCount = @ + 1]

\* crash counting the collision and leaving the player where it is.
crash_noHome(p) == [p EXCEPT !.collisionCount = @ + 1]

crash(p) == [goToHome(p) EXCEPT !.collisionCount = @ + 1]

\* The pixel position Player.prototype.update derives from col and row.
PlayerUpdate(p) ==
    [x |-> IF IsNum(p.col) THEN p.col * SpriteWidth ELSE NaN,
     y |-> IF IsNum(p.row)
           THEN (p.row * VISIBLE_ROW_HEIGHT) - ROW_HEIGHT_OFFSET
           ELSE NaN]

\* --v and ++v of JavaScript: undefined and NaN become NaN.
Dec(v) == IF IsNum(v) THEN v - 1 ELSE NaN
Inc(v) == IF IsNum(v) THEN v + 1 ELSE NaN

\* The field after the key's step and before the clamps.
Stepped(p, keyMove) ==
    [p EXCEPT !.col = IF keyMove = "left" THEN Dec(@)
                      ELSE IF keyMove = "right" THEN Inc(@) ELSE @,
              !.row = IF keyMove = "up" THEN Dec(@)
                      ELSE IF keyMove = "down" THEN Inc(@) ELSE @]

\* handleInput without its two upper clamps.
handleInput_noUpperClamp(p, keyMove) ==
    LET minCol == 0
        minRow == 0
        q == Stepped(p, keyMove)
    IN  [q EXCEPT !.col = IF IsNum(@) /\ @ < minCol THEN minCol ELSE @,
                  !.row = IF IsNum(@) /\ @ < minRow THEN minRow ELSE @]

\* A comparison with undefined or NaN is false, so the clamps leave them.
handleInput(p, keyMove) ==
    LET minCol == 0
        maxCol == gsBoardColumns - 1
        minRow == 0
        maxRow == 5
        q == Stepped(p, keyMove)
    IN  [q EXCEPT !.col = IF IsNum(@) /\ @ > maxCol THEN maxCol
                          ELSE IF IsNum(@) /\ @ < minCol THEN minCol ELSE @,
                  !.row = IF IsNum(@) /\ @ < minRow THEN minRow
                          ELSE IF IsNum(@) /\ @ > maxRow THEN maxRow ELSE @]

\* ------------------------------------------------------------------ Engine
\* The overlap test without the test of the row.
Overlaps_anyRow(e, at) ==
    LET pLeft == at.x + PLAYER_WIDTH_OFFSET
        pRight == pLeft + (SpriteWidth - PLAYER_WIDTH_OFFSET)
        eLeft == e.x
        eRight == eLeft + SpriteWidth
    IN  (eRight >= pLeft) /\ (pRight >= eLeft)

\* The overlap test with strict comparisons: edges that touch do not collide.
Overlaps_strict(e, at) ==
    /\ e.y = at.y
    /\ LET pLeft == at.x + PLAYER_WIDTH_OFFSET
           pRight == pLeft + (SpriteWidth - PLAYER_WIDTH_OFFSET)
           eLeft == e.x
           eRight == eLeft + SpriteWidth
       IN  (eRight > pLeft) /\ (pRight > eLeft)

\* Enemy.prototype.collided, the test alone: same row, and the visible edges
\* touch or overlap.  at is the player's pixel position, [x, y].
Overlaps(e, at) ==
    /\ e.y = at.y
    /\ LET pLeft == at.x + PLAYER_WIDTH_OFFSET
           pRight == pLeft + (SpriteWidth - PLAYER_WIDTH_OFFSET)
           eLeft == e.x
           eRight == eLeft + SpriteWidth
       IN  (eRight >= pLeft) /\ (pRight >= eLeft)

collided(e, p, at) == IF Overlaps(e, at) THEN crash(p) ELSE p

\* allEnemies.some(function(enemy) { enemy.collided(); }): the callback
\* returns nothing, so some() never stops early and every enemy is tested.
\* crash() moves col and row but not x and y, which the tests read.
RECURSIVE checkCollisionsFrom(_, _, _, _)
checkCollisionsFrom(i, es, p, at) ==
    IF i > Len(es) THEN p
    ELSE checkCollisionsFrom(i + 1, es, collided(es[i], p, at), at)

checkCollisions(s, at) ==
    [s EXCEPT !.player = checkCollisionsFrom(1, s.allEnemies, s.player, at)]

\* updateEntities moving the first enemy only.
updateEntities_firstOnly(s, ms, rnd) ==
    [s EXCEPT !.allEnemies[1] = EnemyUpdate(s.allEnemies[1], ms, rnd[1])]

updateEntities(s, ms, rnd) ==
    [s EXCEPT !.allEnemies =
                  [i \in 1 .. Len(s.allEnemies) |->
                      EnemyUpdate(s.allEnemies[i], ms, rnd[i])]]

\* update testing the collisions before it moves the enemies.
update_checkFirst(s, ms, rnd) ==
    updateEntities(checkCollisions(s, PlayerUpdate(s.player)), ms, rnd)

update(s, ms, rnd) ==
    checkCollisions(updateEntities(s, ms, rnd), PlayerUpdate(s.player))

\* renderScore drawing the collision counter instead of the lives left.
renderScore_counter(s) ==
    [s EXCEPT !.score = IF Truthy(s.requestId)
                        THEN s.player.collisionCount
                        ELSE Blank]

renderScore(s) ==
    [s EXCEPT !.score = IF Truthy(s.requestId)
                        THEN gsCollisionLimit - s.player.collisionCount
                        ELSE Blank]

\* The board's images are drawn over the whole canvas, status message included.
renderBoard(s) == renderScore([s EXCEPT !.banner = "none"])

\* render() of main: the board with the score, then the entities.
render(s) == renderBoard(s)

\* Player.prototype.render draws the sprite at this.x and this.y: what
\* Player.prototype.update made of col and row at the start of the tick,
\* in the state s the tick started from.
PlayerRender(s) == PlayerUpdate(s.player)

\* setButtonDisabled flipping the button instead of setting it.
setButtonDisabled_toggle(s, btn, disabledState) ==
    [s EXCEPT !.buttons[btn] = ~@]

setButtonDisabled(s, btn, disabledState) ==
    [s EXCEPT !.buttons[btn] = disabledState]

\* readyStart enabling Start and leaving Reset and Stop as they are.
readyStart_startOnly(s) == setButtonDisabled(renderBoard(s), "start", FALSE)

readyStart(s) ==
    setButtonDisabled(
        setButtonDisabled(
            setButtonDisabled(renderBoard(s), "start", FALSE),
            "reset", TRUE),
        "stop", TRUE)

\* stopGame cancelling the request and keeping its handle in requestId.
stopGame_keepsRequestId(s) ==
    readyStart(IF Truthy(s.requestId)
               THEN [s EXCEPT !.pending = @ \ {s.requestId}]
               ELSE s)

\* stopGame clearing requestId without cancelAnimationFrame.
stopGame_noCancel(s) ==
    readyStart(IF Truthy(s.requestId)
               THEN [s EXCEPT !.requestId = Undefined]
               ELSE s)

\* stopGame sending the player home as well.
stopGame_homesPlayer(s) ==
    readyStart(IF Truthy(s.requestId)
               THEN [s EXCEPT !.pending = @ \ {s.requestId},
                              !.requestId = Undefined,
                              !.player = goToHome(@)]
               ELSE s)

stopGame(s) ==
    readyStart(IF Truthy(s.requestId)
               THEN [s EXCEPT !.pending = @ \ {s.requestId},
                              !.requestId = Undefined]
               ELSE s)

gameOver(s, outcome) == [stopGame(s) EXCEPT !.banner = outcome]

\* checkGameStatus without the test of the water row.
checkGameStatus_noWin(s) ==
    IF s.player.collisionCount >= gsCollisionLimit
    THEN gameOver(s, "lost") ELSE s

\* checkGameStatus losing only beyond the limit (> for >=).
checkGameStatus_beyondLimit(s) ==
    LET t == IF s.player.collisionCount > gsCollisionLimit
             THEN gameOver(s, "lost") ELSE s
    IN  IF t.player.row = 0 THEN gameOver(t, "won") ELSE t

checkGameStatus(s) ==
    LET t == IF s.player.collisionCount >= gsCollisionLimit
             THEN gameOver(s, "lost") ELSE s
    IN  IF t.player.row = 0 THEN gameOver(t, "won") ELSE t

\* win.requestAnimationFrame(main) returns a handle no pending request has.
requestAnimationFrame(s) ==
    LET id == CHOOSE i \in 1 .. Cardinality(s.pending) + 1 :
                  /\ i \notin s.pending
                  /\ \A j \in 1 .. i - 1 : j \in s.pending
    IN  [s EXCEPT !.requestId = id, !.pending = @ \cup {id}]

\* main up to its call of render: dt = (now - lastTime) / 1000.0, update(dt),
\* render().
rendered(s, rnd) == render(update(s, s.elapsed, rnd))

\* main requesting the next frame even after the game was stopped in it.
main_alwaysRequests(s, rnd) ==
    LET u == checkGameStatus(rendered(s, rnd))
    IN  requestAnimationFrame([u EXCEPT !.elapsed = 0])

main(s, rnd) ==
    LET u == checkGameStatus(rendered(s, rnd))
        v == [u EXCEPT !.elapsed = 0]
    IN  IF v.requestId # Undefined THEN requestAnimationFrame(v) ELSE v

\* init without lastTime = Date.now().
init_keepsLastTime(s, rnd) == main(s, rnd)

\* lastTime = Date.now(), and main reads the clock in the same instant.
init(s, rnd) == main([s EXCEPT !.elapsed = 0], rnd)

\* initGameSettings without player.collisionCount = 0.
initGameSettings_keepsCount(s, rnd) ==
    [s EXCEPT !.player = goToHome(@),
              !.requestId = 0,
              !.allEnemies = [i \in 1 .. Len(@) |-> spawn(rnd[i])]]

initGameSettings(s, rnd) ==
    [s EXCEPT !.player = goToHome([@ EXCEPT !.collisionCount = 0]),
              !.requestId = 0,
              !.allEnemies = [i \in 1 .. Len(@) |-> spawn(rnd[i])]]

startGame(s, rnd) ==
    init(initGameSettings(
             setButtonDisabled(
                 setButtonDisabled(
                     setButtonDisabled(s, "start", TRUE),
                     "reset", FALSE),
                 "stop", FALSE),
             rnd),
         rnd)

\* resetGame without its call of startGame.
resetGame_stopOnly(s, rnd) == stopGame(s)

\* resetGame doing nothing more than stopGame when no loop is running.
resetGame_ifRunning(s, rnd) ==
    IF Truthy(s.requestId) THEN startGame(stopGame(s), rnd) ELSE stopGame(s)

resetGame(s, rnd) == startGame(stopGame(s), rnd)

\* ------------------------------------------------------------------ random
Draws == [speed : {speedDraw}, row : RowDraws]
AllRnd == [1 .. gsEnemyCount -> Draws]

\* Math.random is read only for the enemies that spawn in this tick: the
\* draws of the enemies 1..i of a tick that starts in s.
RECURSIVE TickDraws(_, _)
TickDraws(s, i) ==
    IF i = 0 THEN {<<>>}
    ELSE LET ds == IF Leaves(s.allEnemies[i], s.elapsed)
                   THEN Draws ELSE {NoDraw}
         IN  {Append(rnd, d) : rnd \in TickDraws(s, i - 1), d \in ds}

TickRnd(s) == TickDraws(s, gsEnemyCount)

\* ------------------------------------------------------------------ actions
\* The page calling readyStart() as the script loads instead of handing it to
\* Resources.onReady: the Start button is enabled before the images are in.
Init_readyAtLoad ==
    /\ loaded = FALSE
    /\ player = [col |-> Undefined, row |-> Undefined,
                 collisionCount |-> Undefined]
    /\ allEnemies = [i \in 1 .. gsEnemyCount |->
                        [x |-> Undefined, y |-> Undefined, speed |-> Undefined]]
    /\ requestId = 0
    /\ pending = {}
    /\ buttons = [start |-> FALSE, reset |-> TRUE, stop |-> TRUE]
    /\ score = Blank
    /\ banner = "none"
    /\ speedDraw = 0

Init ==
    /\ loaded = FALSE
    /\ player = [col |-> Undefined, row |-> Undefined,
                 collisionCount |-> Undefined]
    /\ allEnemies = [i \in 1 .. gsEnemyCount |->
                        [x |-> Undefined, y |-> Undefined, speed |-> Undefined]]
    /\ requestId = 0
    /\ pending = {}
    /\ buttons = [start |-> TRUE, reset |-> TRUE, stop |-> TRUE]
    /\ score = Blank
    /\ banner = "none"
    /\ speedDraw = 0

\* Resources.onReady(readyStart): all the images have loaded.
OnReady ==
    /\ ~loaded
    /\ Apply([readyStart(Cur) EXCEPT !.loaded = TRUE])
    /\ UNCHANGED speedDraw

\* The keyup listener: any key, in any state of the game.
KeyUp ==
    /\ \E k \in Keys : Apply([Cur EXCEPT !.player = handleInput(player, k)])
    /\ UNCHANGED speedDraw

\* A click reaches a button's listener only while the button is enabled.
ClickStart ==
    /\ ~buttons.start
    /\ \E rnd \in AllRnd : Apply(startGame(At(ClickElapsed), rnd))
    /\ UNCHANGED speedDraw

ClickReset ==
    /\ ~buttons.reset
    /\ \E rnd \in AllRnd : Apply(resetGame(At(ClickElapsed), rnd))
    /\ UNCHANGED speedDraw

ClickStop ==
    /\ ~buttons.stop
    /\ Apply(stopGame(Cur))
    /\ UNCHANGED speedDraw

\* The state in which the browser calls main for the frame request id.
Fired(id, ms) == [At(ms) EXCEPT !.pending = @ \ {id}]

\* The browser runs a pending frame request: one tick of the game loop.
Frame ==
    /\ \E id \in pending : \E ms \in Elapsed :
           \E s \in {Fired(id, ms)} : \E rnd \in TickRnd(s) : Apply(main(s, rnd))
    /\ UNCHANGED speedDraw

Next ==
    \/ OnReady
    \/ KeyUp
    \/ ClickStart
    \/ ClickReset
    \/ ClickStop
    \/ Frame

\* The game with every enemy at the minimum speed, 100 pixels a second.
Spec == Init /\ [][Next]_vars

\* The game with the enemies at either end of the range of speeds: 100, or
\* 399, where every enemy leaves the track in every tick that takes time.
SpeedInit ==
    /\ loaded = FALSE
    /\ player = [col |-> Undefined, row |-> Undefined,
                 collisionCount |-> Undefined]
    /\ allEnemies = [i \in 1 .. gsEnemyCount |->
                        [x |-> Undefined, y |-> Undefined, speed |-> Undefined]]
    /\ requestId = 0
    /\ pending = {}
    /\ buttons = [start |-> TRUE, reset |-> TRUE, stop |-> TRUE]
    /\ score = Blank
    /\ banner = "none"
    /\ speedDraw \in SpeedDraws

SpeedSpec == SpeedInit /\ [][Next]_vars

\* ------------------------------------------------------- the collision test
\* The collision test on every position an enemy can have on the track: a
\* running game without a collision yet, the player in any row, the first
\* enemy anywhere on the track in any enemy row, the other two at the start
\* of the first enemy row.
TrackXs == 0 .. gsBoardColumns * SpriteWidth

CollisionInit ==
    /\ loaded = TRUE
    /\ player \in [col : 0 .. gsBoardColumns - 1, row : 0 .. 5,
                    collisionCount : {0}]
    /\ \E x \in TrackXs : \E r \in RowDraws :
           allEnemies = <<[x |-> x, y |-> setRow(r), speed |-> setSpeed(0)],
                          spawn(NoDraw), spawn(NoDraw)>>
    /\ requestId = 1
    /\ pending = {1}
    /\ buttons = [start |-> TRUE, reset |-> FALSE, stop |-> FALSE]
    /\ score = gsCollisionLimit
    /\ banner = "none"
    /\ speedDraw = 0

\* A tick that reads the clock in the millisecond lastTime was set in: dt is
\* 0, no enemy moves, and the collisions are tested where the enemies are.
FrameNow ==
    /\ \E id \in pending : \E s \in {Fired(id, 0)} :
           \E rnd \in TickRnd(s) : Apply(main(s, rnd))
    /\ UNCHANGED speedDraw

CollisionSpec == CollisionInit /\ [][FrameNow]_vars

\* ---------------------------------------------------------------- liveness
\* The frame that comes ms after the last one: the enemies are where
\* updateEntities puts them, and everything is as main leaves it.
FrameStep(ms) ==
    \E id \in pending : \E s \in {Fired(id, ms)} : \E rnd \in TickRnd(s) :
        /\ allEnemies' = updateEntities(s, ms, rnd).allEnemies
        /\ Apply(main(s, rnd))

\* A frame that finds the clock advanced since the last one.
FrameLater ==
    /\ \E ms \in Elapsed \ {0} : FrameStep(ms)
    /\ UNCHANGED speedDraw

\* A frame in which enemy i passes the right edge and spawns again.
Respawns(i) ==
    /\ \E ms \in Elapsed : Leaves(allEnemies[i], ms) /\ FrameStep(ms)
    /\ UNCHANGED speedDraw

\* requestAnimationFrame runs the callback it was given, and the clock does
\* not stand still for ever: while a request is pending, a frame with a
\* positive dt comes. This is weak fairness of FrameLater, written out by its
\* definition, []<>~ENABLED <<A>>_vars \/ []<><<A>>_vars: a frame with a
\* positive dt moves every enemy, so it is enabled exactly when a request is
\* pending.
FrameLaterEnabled == pending # {}
FrameFairness == []<>(~FrameLaterEnabled) \/ []<><<FrameLater>>_vars
LiveSpec == Init /\ [][Next]_vars /\ FrameFairness

\* ------------------------------------------------------------------ states
\* A game loop is active: the last frame request is neither run nor cancelled.
Running == Truthy(requestId)
\* startGame has run at least once.
Started == player.collisionCount # Undefined
\* Idle after the images have loaded, or Ended.
NoGameActive == loaded /\ ~Running
\* The states a tick can start from and those it can leave, one for every
\* pending frame request, every reading of the clock and every draw of the
\* enemies that spawn in it.
TickStarts == {Fired(id, ms) : id \in pending, ms \in Elapsed}
Ticks == UNION {{main(s, rnd) : rnd \in TickRnd(s)} : s \in TickStarts}
\* What the render of those ticks draws, before the status check.
Renders == UNION {{rendered(s, rnd) : rnd \in TickRnd(s)} : s \in TickStarts}

\* ------------------------------------------------------------------ claims

\* C1: in every tick the collision counter increases by at most 1, however
\* many enemies overlap the player in the player's row.
C1_AtMostOneCollisionPerTick ==
    [][Frame => player'.collisionCount <= player.collisionCount + 1]_vars

\* C2: whenever a tick draws the score, the remaining lives it draws
\* (gsCollisionLimit - collisionCount) are not negative.
C2_LivesNeverNegative ==
    \A r \in Renders : r.score # Blank => r.score >= 0

\* C3: a key handled while no game loop is running leaves the player's
\* column and row unchanged.
C3_NoMoveUnlessRunning ==
    [][(~Running /\ KeyUp) =>
          (player'.col = player.col /\ player'.row = player.row)]_vars

\* C4: once a tick has ended the game as won or lost, no frame request is
\* pending and requestId is undefined, so no tick runs before the next start.
C4_EndedHalts ==
    banner # "none" => (pending = {} /\ requestId = Undefined)

C4_Witness ==
    banner # "none" /\ pending = {} /\ Started

\* C5: once a game has been started, the player's column is in 0..4 and the
\* row in 0..5, and a key that would step out of the range leaves the
\* coordinate at the boundary.
C5_PlayerInBounds ==
    Started =>
        /\ player.col \in 0 .. gsBoardColumns - 1
        /\ player.row \in 0 .. 5
        /\ \A k \in Keys :
               LET q == Stepped(player, k)
                   r == handleInput(player, k)
               IN  /\ q.col > gsBoardColumns - 1 => r.col = gsBoardColumns - 1
                   /\ q.col < 0 => r.col = 0
                   /\ q.row > 5 => r.row = 5
                   /\ q.row < 0 => r.row = 0
                   /\ q.col \in 0 .. gsBoardColumns - 1 => r.col = q.col
                   /\ q.row \in 0 .. 5 => r.row = q.row

\* The player is in the corner its keys took it to, where "up" and "right"
\* would both leave the board.
C5_Witness ==
    /\ Started
    /\ player.col = gsBoardColumns - 1
    /\ player.row = 0
    /\ Stepped(player, "right").col = gsBoardColumns

\* C6: a tick that begins with a running game and the player in row 0 ends
\* the game as won: the won message is shown and the loop has halted.
C6_RowZeroWins ==
    (Running /\ player.row = 0) =>
        /\ Ticks # {}
        /\ \A t \in Ticks :
               t.banner = "won" /\ t.pending = {} /\ t.requestId = Undefined

\* The game was won without a collision: five "up" from home, then a tick.
C6_Witness ==
    /\ banner = "won"
    /\ player = [col |-> 2, row |-> 0, collisionCount |-> 0]

\* C7: a tick that leaves the collision counter at the life limit or beyond
\* ends the game as lost and halts the loop, and the game is lost only with
\* the counter at the limit or beyond.
C7_LimitLoses ==
    /\ \A t \in Ticks :
           t.player.collisionCount >= gsCollisionLimit =>
               t.banner = "lost" /\ t.pending = {} /\ t.requestId = Undefined
    /\ banner = "lost" => player.collisionCount >= gsCollisionLimit

\* The game was lost with the counter at the limit, the player at home.
C7_Witness ==
    /\ banner = "lost"
    /\ player = [col |-> 2, row |-> 5, collisionCount |-> gsCollisionLimit]

\* C8: a stop with a frame request pending leaves no request pending, and
\* while requestId is undefined (after a stop or the end of a game) none is
\* pending, so no tick runs before the next start or reset.
C8_StopCancelsPending ==
    /\ pending # {} => stopGame(Cur).pending = {}
    /\ requestId = Undefined => pending = {}

\* The game was stopped by the Stop button, in the middle of a game.
C8_Witness ==
    /\ requestId = Undefined
    /\ banner = "none"
    /\ Started
    /\ player.row # 0
    /\ player.collisionCount < gsCollisionLimit

\* C9: stop applied twice yields the state stop applied once yields.
C9_StopIdempotent ==
    stopGame(stopGame(Cur)) = stopGame(Cur)

\* The Stop button has stopped a game after its first collision: the Stop
\* button is disabled, and a second stop changes nothing.
C9_Witness ==
    /\ requestId = Undefined
    /\ banner = "none"
    /\ buttons.stop
    /\ player.collisionCount = 1
    /\ stopGame(Cur) = Cur

\* What C10 calls a no-op: no loop started, and the collision counter, the
\* player and the enemies as they were.
SameGame(t) ==
    /\ t.pending = pending
    /\ ~Truthy(t.requestId)
    /\ t.player = player
    /\ t.allEnemies = allEnemies

C11_RenderReflectsOutcome ==
    \A s \in TickStarts : \A rnd \in TickRnd(s) :
        LET r == rendered(s, rnd)
            t == main(s, rnd)
        IN  r.banner = t.banner /\ r.score = t.score

\* C12: in every tick the collisions are tested on the enemies as the tick's
\* update has moved them and on the player's updated pixel position, and
\* render draws the enemies and the counter as the collision test left them.
C12_UpdateCollideRender ==
    \A s \in TickStarts : \A rnd \in TickRnd(s) :
        LET t == main(s, rnd)
            r == rendered(s, rnd)
            at == PlayerUpdate(player)
            hits == {i \in 1 .. gsEnemyCount : Overlaps(t.allEnemies[i], at)}
        IN  /\ t.allEnemies = [i \in 1 .. gsEnemyCount |->
                                  EnemyUpdate(allEnemies[i], s.elapsed, rnd[i])]
            /\ t.player.collisionCount =
                   player.collisionCount + Cardinality(hits)
            /\ r.allEnemies = t.allEnemies
            /\ r.score = gsCollisionLimit - t.player.collisionCount

\* A tick in which an enemy that does not overlap the player moves onto it.
C12_Witness ==
    /\ Running
    /\ \E s \in TickStarts : \E rnd \in TickRnd(s) : \E i \in 1 .. gsEnemyCount :
           /\ ~Overlaps(allEnemies[i], PlayerUpdate(player))
           /\ Overlaps(main(s, rnd).allEnemies[i], PlayerUpdate(player))
           /\ main(s, rnd).player.collisionCount = player.collisionCount + 1

\* C13: in every tick, an enemy whose position after adding speed * dt is
\* beyond the track (5 columns of 101 pixels) ends the tick at position 0, in
\* one of the rows 1..3 and with a speed in [100, 400); any other enemy
\* keeps its row and its speed.
C13_Respawn ==
    \A s \in TickStarts : \A rnd \in TickRnd(s) :
        LET t == main(s, rnd)
        IN  \A i \in 1 .. gsEnemyCount :
                LET e == allEnemies[i]
                    f == t.allEnemies[i]
                IN  IF e.x + (e.speed * s.elapsed) \div 1000
                           > gsBoardColumns * SpriteWidth
                    THEN /\ f.x = 0
                         /\ f.y \in {(row * VISIBLE_ROW_HEIGHT) - ROW_HEIGHT_OFFSET :
                                        row \in 1 .. 3}
                         /\ f.speed >= 100 /\ f.speed < 400
                    ELSE f.y = e.y /\ f.speed = e.speed

\* An enemy a tick has moved along its row, the next tick taking it beyond
\* the track.
C13_Witness ==
    /\ Running
    /\ \E ms \in Elapsed : \E i \in 1 .. gsEnemyCount :
           allEnemies[i].x > 0 /\ Leaves(allEnemies[i], ms)

\* C14: a start command, and the start half of a reset of a running game,
\* leaves the collision counter at 0, the player at home, every enemy at
\* position 0 and the loop running, whatever state it is issued in.
C14_StartIsFresh ==
    \A rnd \in AllRnd :
        LET t == IF Running THEN resetGame(Cur, rnd) ELSE startGame(Cur, rnd)
        IN  /\ t.player = [col |-> 2, row |-> 5, collisionCount |-> 0]
            /\ \A i \in 1 .. gsEnemyCount : t.allEnemies[i].x = 0
            /\ Truthy(t.requestId)
            /\ t.pending = {t.requestId}
            /\ t.banner = "none"

\* A lost game whose player the keys have moved since, the enemies along
\* their rows: what the next start has to clear.
C14_Witness ==
    /\ banner = "lost"
    /\ player.collisionCount >= gsCollisionLimit
    /\ player.row # 5
    /\ \E i \in 1 .. gsEnemyCount : allEnemies[i].x > 0

\* C15: a tick that registers a collision ends with the player at home
\* (column 2, row 5), wherever the player was when the tick began.
C15_CollisionSendsHome ==
    \A s \in TickStarts : \A rnd \in TickRnd(s) :
        LET t == main(s, rnd)
        IN  t.player.collisionCount > player.collisionCount =>
                t.player.col = 2 /\ t.player.row = 5

\* The player away from the home column, in a row where the next tick
\* registers a collision.
C15_Witness ==
    /\ player.col # 2
    /\ \E s \in TickStarts : \E rnd \in TickRnd(s) :
           main(s, rnd).player.collisionCount > player.collisionCount

\* C16: a tick registers a collision for exactly the enemies in the
\* player's row with enemyX + 101 >= playerX + 23 and playerX + 101 >= enemyX,
\* edges that touch included.
C16_CollisionIffOverlap ==
    \A id \in pending : \A rnd \in TickRnd(Fired(id, 0)) :
        LET t == main(Fired(id, 0), rnd)
            playerX == player.col * 101
            playerY == (player.row * 83) - 25
            hits == {i \in 1 .. gsEnemyCount :
                        /\ allEnemies[i].y = playerY
                        /\ allEnemies[i].x + 101 >= playerX + 23
                        /\ playerX + 101 >= allEnemies[i].x}
        IN  t.player.collisionCount = player.collisionCount + Cardinality(hits)

\* The first enemy's left edge touches the player's right edge, and the tick
\* registers the one collision.
C16_Witness ==
    /\ player.collisionCount = 0
    /\ allEnemies[1].y = (player.row * 83) - 25
    /\ allEnemies[1].x = (player.col * 101) + 101
    /\ \E id \in pending : \E rnd \in TickRnd(Fired(id, 0)) :
           main(Fired(id, 0), rnd).player.collisionCount = 1

C18_StopKeepsGame ==
    Running =>
        LET t == stopGame(Cur)
        IN  /\ ~Truthy(t.requestId)
            /\ t.pending = {}
            /\ t.banner = "none"
            /\ ~t.buttons.start
            /\ t.player = player
            /\ t.allEnemies = allEnemies

\* A game stopped after two collisions, the enemies along their rows and
\* the player away from home.
C18_Witness ==
    /\ requestId = Undefined
    /\ banner = "none"
    /\ ~buttons.start
    /\ player.collisionCount = 2
    /\ player.row = 4
    /\ \E i \in 1 .. gsEnemyCount : allEnemies[i].x > 0

C20_NoStartBeforeLoaded ==
    ~loaded => (buttons.start /\ requestId = 0 /\ pending = {})

\* A key was handled before the images had loaded.
C20_Witness ==
    ~loaded /\ player.row = NaN

\* C21: a tick that begins with the player in row 0, 4 or 5 registers no
\* collision, wherever the enemies are on the track: it leaves the collision
\* counter and the player's column and row as they were.
C21_NoCollisionOffTheStones ==
    player.row \in {0, 4, 5} =>
        \A id \in pending : \A rnd \in TickRnd(Fired(id, 0)) :
            main(Fired(id, 0), rnd).player = player

\* The player on the grass with the first enemy in its column, and a tick
\* that leaves the player there.
C21_Witness ==
    /\ player.row = 4
    /\ player.collisionCount = 0
    /\ allEnemies[1].x = player.col * SpriteWidth
    /\ \E id \in pending : \E rnd \in TickRnd(Fired(id, 0)) :
           main(Fired(id, 0), rnd).player = player

\* C22: once a game has been started, every enemy is in one of the rows
\* 1..3, has a speed in [100, 400) and a position in [0, 505].
C22_EnemiesInRange ==
    Started =>
        \A i \in 1 .. gsEnemyCount :
            /\ allEnemies[i].y \in {(row * 83) - 25 : row \in 1 .. 3}
            /\ allEnemies[i].speed >= 100 /\ allEnemies[i].speed < 400
            /\ allEnemies[i].x >= 0 /\ allEnemies[i].x <= 505

\* A running game whose enemies, at the top of the range of speeds, have
\* been respawned by a tick into three different rows.
C22_Witness ==
    /\ Running
    /\ score # Blank
    /\ \A i \in 1 .. gsEnemyCount : allEnemies[i].speed = 399
    /\ allEnemies[1].y < allEnemies[2].y
    /\ allEnemies[2].y < allEnemies[3].y

\* C23: the pixel position the render of a tick draws the player at is the
\* one derived from the column and row the player has at that render.
C23_RenderedAtGrid ==
    \A s \in TickStarts : \A rnd \in TickRnd(s) :
        PlayerRender(s) = PlayerUpdate(rendered(s, rnd).player)

\* C24: at the status check of a tick, the tick inside a start included,
\* the collision counter is not at the life limit or beyond with the player
\* in row 0.
C24_OneOutcome ==
    /\ \A s \in TickStarts : \A rnd \in TickRnd(s) :
           LET r == rendered(s, rnd)
           IN  ~(r.player.collisionCount >= gsCollisionLimit
                 /\ r.player.row = 0)
    /\ NoGameActive =>
           \A rnd \in AllRnd :
               \A r \in {rendered([initGameSettings(Cur, rnd)
                                       EXCEPT !.elapsed = 0], rnd)} :
                   ~(r.player.collisionCount >= gsCollisionLimit
                     /\ r.player.row = 0)

\* A game with two collisions in which the next tick registers another,
\* and its status check finds the counter at the limit.
C24_Witness ==
    /\ player.collisionCount = 2
    /\ \E s \in TickStarts : \E rnd \in TickRnd(s) :
           rendered(s, rnd).player.collisionCount >= gsCollisionLimit

\* C25: at most one frame request is pending.
C25_OneLoop ==
    Cardinality(pending) <= 1

\* A running game, two collisions into it, with its one request pending.
C25_Witness ==
    Cardinality(pending) = 1 /\ player.collisionCount = 2 /\ score = 1

\* C26: once the images have loaded, Start is enabled exactly when no game
\* loop is active, and Reset and Stop exactly when one is.
C26_ButtonsFollowLoop ==
    loaded =>
        /\ ~buttons.start <=> ~Running
        /\ ~buttons.reset <=> Running
        /\ ~buttons.stop <=> Running

\* A won game: Start enabled, Reset and Stop disabled.
C26_Witness ==
    /\ banner = "won"
    /\ ~buttons.start
    /\ buttons.reset
    /\ buttons.stop

\* C27: a start issued while no game loop is active, however long after
\* lastTime was set, leaves every enemy at position 0.
C27_HaltedTimeNotApplied ==
    NoGameActive =>
        \A ms \in Elapsed : \A rnd \in AllRnd :
            \A t \in {startGame(At(ms), rnd)} :
                \A i \in 1 .. gsEnemyCount : t.allEnemies[i].x = 0

\* A lost game with an enemy along its row, and a start that comes after
\* the clock has advanced and leaves every enemy at the start of the track.
C27_Witness ==
    /\ NoGameActive
    /\ banner = "lost"
    /\ ClickElapsed > 0
    /\ \E i \in 1 .. gsEnemyCount : allEnemies[i].x > 0
    /\ \E rnd \in AllRnd : \A t \in {startGame(At(ClickElapsed), rnd)} :
           \A i \in 1 .. gsEnemyCount : t.allEnemies[i].x = 0

\* C28: if from some point on the game stays running, then every enemy
\* passes the right edge and spawns again infinitely often, unless the game
\* is reset (stopped and started again) infinitely often: the state a start
\* leaves, in which no frame has drawn the score yet, keeps coming back.
C28_EnemiesKeepRespawning ==
    \A i \in 1 .. gsEnemyCount :
        <>[]Running =>
            \/ []<>(score = Blank)
            \/ []<><<Respawns(i)>>_vars

\* A running game in which all three enemies are along their rows and the
\* next frame with a positive dt takes each of them past the right edge.
C28_Witness ==
    /\ Running
    /\ player.row = 5
    /\ \A i \in 1 .. gsEnemyCount :
           /\ allEnemies[i].x > 0
           /\ \E ms \in Elapsed \ {0} : Leaves(allEnemies[i], ms)

====
